---- MODULE Spec2Model ----
(***************************************************************************)
(* go-auth-service: the users table and the Register / Login handlers and  *)
(* the JWT middleware (handlers/auth_handler.go, repository/               *)
(* user_repository.go, middleware/auth_middleware.go, migrations/001), and *)
(* the activation endpoint that the OpenAPI contract declares              *)
(* (/activate/{token}) with its Activation Token Manager.                  *)
(*                                                                         *)
(* Time is counted in hours.  A handler that is between two of its storage *)
(* operations is an element of regInFlight or actInFlight, holding the     *)
(* handler's local variables.                                              *)
(***************************************************************************)
EXTENDS Integers, Sequences, FiniteSets, TLC

\* ---------------------------------------------------------------- bounds
MaxId     == 2      \* values the SERIAL sequence users.id hands out
MaxTokens == 1      \* activation tokens ever issued
MaxTime   == 48     \* the clock stops here
NumCallers == 3     \* goroutines that call LoadConfig

\* ---------------------------------------------------------------- inputs
Emails    == {"a@b.com", "A@b.com"}
Passwords == {"password1", "wrong"}
RegPasswords == {"password1"}  \* passwords registered where accounts are not the subject
TickSteps == {24}
UserIds   == 1..MaxId
ReqToks   == 0..MaxTokens      \* token values 1..MaxTokens; 0: a path parameter no Issue ever returned

\* ------------------------------------------------------ program constants
JwtTTL        == 24            \* time.Hour * 24
ActivationTTL == 24            \* recommended ttl of an activation token
JWTSecret     == "secret"
MinPasswordLen == 8            \* RegisterRequest.password minLength
OtherSecret   == "not-the-secret"

VARIABLES
    users,        \* rows of table users: [id, email, password]
    nextId,       \* next value of the sequence behind users.id
    regInFlight,  \* Register handlers that hashed and have not inserted yet
    active,       \* ids of the users whose status is Active (others: Pending)
    tokens,       \* activation tokens: [value, uid, expiry, consumed]
    actInFlight,  \* Activate handlers that validated and have not set active
    now,          \* the clock, in hours
    resp,         \* what the last handler step returned, with what it saw
    held,         \* the identity token the client keeps: <<>> or <<token>>
    nsucc,        \* nsucc[v]: Validate calls on token value v that succeeded
    cfg           \* package config: once, the variable config, the process
                  \* environment and the LoadConfig calls under way

acctVars == <<users, nextId, regInFlight, active, tokens, actInFlight, now,
              resp, held, nsucc>>

vars == <<users, nextId, regInFlight, active, tokens, actInFlight, now, resp,
          held, nsucc, cfg>>

\* --------------------------------------------------------- config/config.go
Callers == 1..NumCallers

\* A *Config is the allocation of one LoadConfig call (by) with the DBHost it
\* was built with; by = 0 is the nil pointer.
NoConfig == [by |-> 0, DBHost |-> ""]

DotEnvDBHost == "db.file"      \* DB_HOST as a .env file sets it

getEnv(value, defaultValue) == IF value = "" THEN defaultValue ELSE value

\* ------------------------------------------------------- utils/password.go
HashPassword(password) == [bcrypt |-> password]

CheckPasswordHash(password, hash) == hash.bcrypt = password

\* ------------------------------------------- repository/user_repository.go
\* INSERT INTO users (email, password): email is VARCHAR(255) UNIQUE, so the
\* insert fails exactly when a row holds the same string.
CreateUserFails(us, email) == \E u \in us : u.email = email

\* SELECT ... WHERE email = $1: the rows found (none: sql.ErrNoRows).
FindUserByEmail(us, email) == {u \in us : u.email = email}

\* ------------------------------------------------------------ JWT (HS256)
HS256(key, claims) == [alg |-> "HS256", key |-> key, over |-> claims]

SignedString(claims, key) == [claims |-> claims, sig |-> HS256(key, claims)]

\* The token Login builds for a user row at time t.
IssueToken(u, t) ==
    SignedString([user_id |-> u.id, email |-> u.email, exp |-> t + JwtTTL],
                 JWTSecret)

\* Parse that skips the validation of the claims.
ParseNoExp(tok, key, t) ==
    IF tok.sig # HS256(key, tok.claims) THEN [err |-> "BadSignature", user_id |-> 0]
    ELSE [err |-> "none", user_id |-> tok.claims.user_id]

\* jwt.Parse (golang-jwt v5): the signature first, then the exp claim; the
\* token is valid only while the clock is before exp.
Parse(tok, key, t) ==
    IF tok.sig # HS256(key, tok.claims) THEN [err |-> "BadSignature", user_id |-> 0]
    ELSE IF ~(t < tok.claims.exp) THEN [err |-> "Expired", user_id |-> 0]
    ELSE [err |-> "none", user_id |-> tok.claims.user_id]

\* ------------------------------------------------ Activation Token Manager
Status(uid) == IF uid \in active THEN "Active" ELSE "Pending"

\* Validate that reads the consumed flag and writes it without a condition.
ValidateNoFlag(toks, v, t) ==
    LET hit == {x \in toks : x.value = v} IN
    IF hit = {} THEN [res |-> "NotFound", uid |-> 0, toks |-> toks]
    ELSE LET x == CHOOSE y \in hit : TRUE IN
         IF t > x.expiry THEN [res |-> "Expired", uid |-> 0, toks |-> toks]
         ELSE [res |-> "Success", uid |-> x.uid,
               toks |-> (toks \ {x}) \cup {[x EXCEPT !.consumed = TRUE]}]

\* Validate that never looks at the expiry.
ValidateNoExpiry(toks, v, t) ==
    LET hit == {x \in toks : x.value = v} IN
    IF hit = {} THEN [res |-> "NotFound", uid |-> 0, toks |-> toks]
    ELSE LET x == CHOOSE y \in hit : TRUE IN
         IF x.consumed
         THEN [res |-> "AlreadyConsumed", uid |-> 0, toks |-> toks]
         ELSE [res |-> "Success", uid |-> x.uid,
               toks |-> (toks \ {x}) \cup {[x EXCEPT !.consumed = TRUE]}]

Validate(toks, v, t) ==
    LET hit == {x \in toks : x.value = v} IN
    IF hit = {} THEN [res |-> "NotFound", uid |-> 0, toks |-> toks]
    ELSE LET x == CHOOSE y \in hit : TRUE IN
         IF t > x.expiry THEN [res |-> "Expired", uid |-> 0, toks |-> toks]
         ELSE IF x.consumed
              THEN [res |-> "AlreadyConsumed", uid |-> 0, toks |-> toks]
              ELSE [res |-> "Success", uid |-> x.uid,
                    toks |-> (toks \ {x}) \cup {[x EXCEPT !.consumed = TRUE]}]

\* -------------------------------------------------------------------- Init
Init ==
    /\ users = {}
    /\ nextId = 1
    /\ regInFlight = {}
    /\ active = {}
    /\ tokens = {}
    /\ actInFlight = {}
    /\ now = 0
    /\ resp = [op |-> "none", code |-> 0]
    /\ held = <<>>
    /\ nsucc = [v \in ReqToks |-> 0]
    /\ cfg = [pc |-> [g \in Callers |-> "once"],
              onceDone |-> FALSE,
              loads |-> 0,
              env |-> "",
              dbHost |-> [g \in Callers |-> ""],
              config |-> NoConfig,
              ret |-> [g \in Callers |-> NoConfig]]

\* ------------------------------------------------------------------- clock
Tick(d) ==
    /\ now + d <= MaxTime
    /\ now' = now + d
    /\ UNCHANGED cfg
    /\ UNCHANGED <<users, nextId, regInFlight, active, tokens, actInFlight,
                   resp, held, nsucc>>

\* ---------------------------------------------------- AuthHandler.Register
\* ShouldBindJSON, then HashPassword; the handler goes on to CreateUser.
\* late is history only (the handler never reads it): a row with this email
\* was already there when the request arrived.
RegisterBind(email, password, jsonOK) ==
    /\ nextId + Cardinality(regInFlight) <= MaxId
    /\ IF ~jsonOK
       THEN /\ resp' = [op |-> "register", code |-> 400, body |-> "bind error"]
            /\ UNCHANGED regInFlight
       ELSE /\ \A r \in regInFlight :
                  ~(r.email = email /\ r.password = HashPassword(password))
            /\ regInFlight' = regInFlight \cup
                  {[email |-> email, password |-> HashPassword(password),
                    late |-> CreateUserFails(users, email)]}
            /\ UNCHANGED resp
    /\ UNCHANGED cfg
    /\ UNCHANGED <<users, nextId, active, tokens, actInFlight, now, held, nsucc>>

\* RegisterInsert that creates the account already activated.
RegisterInsertActive(r) ==
    /\ r \in regInFlight
    /\ regInFlight' = regInFlight \ {r}
    /\ nextId' = nextId + 1
    /\ IF CreateUserFails(users, r.email)
       THEN /\ resp' = [op |-> "register", code |-> 500,
                        body |-> "Failed to create user", email |-> r.email]
            /\ UNCHANGED <<users, active>>
       ELSE /\ users' = users \cup {[id |-> nextId, email |-> r.email,
                                     password |-> r.password]}
            /\ active' = active \cup {nextId}
            /\ resp' = [op |-> "register", code |-> 201,
                        body |-> "User created successfully", email |-> r.email]
    /\ UNCHANGED cfg
    /\ UNCHANGED <<tokens, actInFlight, now, held, nsucc>>

\* userRepo.CreateUser and the response.  The sequence advances on a failed
\* insert too.
RegisterInsert(r) ==
    /\ r \in regInFlight
    /\ regInFlight' = regInFlight \ {r}
    /\ nextId' = nextId + 1
    /\ IF CreateUserFails(users, r.email)
       THEN /\ resp' = [op |-> "register", code |-> 500,
                        body |-> "Failed to create user", email |-> r.email]
            /\ UNCHANGED users
       ELSE /\ users' = users \cup {[id |-> nextId, email |-> r.email,
                                     password |-> r.password]}
            /\ resp' = [op |-> "register", code |-> 201,
                        body |-> "User created successfully", email |-> r.email]
    /\ UNCHANGED cfg
    /\ UNCHANGED <<active, tokens, actInFlight, now, held, nsucc>>

\* ------------------------------------------------------- AuthHandler.Login
\* LoginResp that tells an unknown email from a wrong password.
LoginRespLeaky(us, email, password, t) ==
    LET found == FindUserByEmail(us, email) IN
    IF found = {}
    THEN [code |-> 404, body |-> "User not found", token |-> <<>>]
    ELSE LET dbUser == CHOOSE u \in found : TRUE IN
         IF ~CheckPasswordHash(password, dbUser.password)
         THEN [code |-> 401, body |-> "Invalid credentials", token |-> <<>>]
         ELSE [code |-> 200, body |-> "token", token |-> <<IssueToken(dbUser, t)>>]

LoginResp(us, email, password, t) ==
    LET found == FindUserByEmail(us, email) IN
    IF found = {}
    THEN [code |-> 401, body |-> "Invalid credentials", token |-> <<>>]
    ELSE LET dbUser == CHOOSE u \in found : TRUE IN
         IF ~CheckPasswordHash(password, dbUser.password)
         THEN [code |-> 401, body |-> "Invalid credentials", token |-> <<>>]
         ELSE [code |-> 200, body |-> "token", token |-> <<IssueToken(dbUser, t)>>]

Login(email, password, jsonOK) ==
    /\ IF ~jsonOK
       THEN resp' = [op |-> "login", code |-> 400, body |-> "bind error"]
       ELSE LET r == LoginResp(users, email, password, now) IN
            resp' = [op |-> "login", code |-> r.code, body |-> r.body,
                     token |-> r.token, email |-> email, password |-> password]
    /\ UNCHANGED cfg
    /\ UNCHANGED <<users, nextId, regInFlight, active, tokens, actInFlight,
                   now, held, nsucc>>

\* The client keeps the token of the Login response it has just received.
KeepToken ==
    /\ resp.op = "login"
    /\ resp.code = 200
    /\ held # resp.token
    /\ held' = resp.token
    /\ UNCHANGED cfg
    /\ UNCHANGED <<users, nextId, regInFlight, active, tokens, actInFlight,
                   now, resp, nsucc>>

\* ---------------------------------------------------------- AuthMiddleware
\* hdr is the Authorization header: <<>> when empty, else <<token>>.
AuthMiddleware(hdr) ==
    /\ IF hdr = <<>>
       THEN resp' = [op |-> "verify", code |-> 401, body |-> "Unauthorized",
                     err |-> "empty", user_id |-> 0, hdr |-> hdr]
       ELSE LET r == Parse(hdr[1], JWTSecret, now) IN
            resp' = [op |-> "verify",
                     code |-> IF r.err = "none" THEN 200 ELSE 401,
                     body |-> IF r.err = "none" THEN "You are authenticated"
                              ELSE "Invalid token",
                     err |-> r.err, user_id |-> r.user_id, hdr |-> hdr]
    /\ UNCHANGED cfg
    /\ UNCHANGED <<users, nextId, regInFlight, active, tokens, actInFlight,
                   now, held, nsucc>>

\* The headers a client can send: none, the token it holds, that token
\* re-signed with another key, that token with its user_id claim changed.
Forged(tok) == SignedString(tok.claims, OtherSecret)

Tampered(tok, uid) == [tok EXCEPT !.claims.user_id = uid]

Headers ==
    {<<>>} \cup
    (IF held = <<>> THEN {}
     ELSE {held, <<Forged(held[1])>>} \cup
          {<<Tampered(held[1], uid)>> : uid \in UserIds \ {held[1].claims.user_id}})

\* ------------------------------------------- Activation Token Manager.Issue
\* The new token value is one no earlier Issue returned.
Issue(uid) ==
    /\ Cardinality(tokens) < MaxTokens
    /\ tokens' = tokens \cup {[value |-> Cardinality(tokens) + 1, uid |-> uid,
                               expiry |-> now + ActivationTTL, consumed |-> FALSE]}
    /\ UNCHANGED cfg
    /\ UNCHANGED <<users, nextId, regInFlight, active, actInFlight, now, resp,
                   held, nsucc>>

\* --------------------------------------------------- Activation Orchestrator
\* ActivateResp that reports an expired token with its own status.
ActivateRespLeaky(res) ==
    IF res = "Success" THEN [code |-> 200, body |-> "Account activated"]
    ELSE IF res = "UserNotFound" THEN [code |-> 404, body |-> "User not found"]
    ELSE IF res = "Internal" THEN [code |-> 500, body |-> "Internal error"]
    ELSE IF res = "Expired" THEN [code |-> 410, body |-> "Token expired"]
    ELSE [code |-> 400, body |-> "Invalid or expired token"]

ActivateResp(res) ==
    IF res = "Success" THEN [code |-> 200, body |-> "Account activated"]
    ELSE IF res = "UserNotFound" THEN [code |-> 404, body |-> "User not found"]
    ELSE IF res = "Internal" THEN [code |-> 500, body |-> "Internal error"]
    ELSE [code |-> 400, body |-> "Invalid or expired token"]

\* Validate(tokenValue); a TokenError ends the call.
ActivateValidate(v) ==
    LET r == Validate(tokens, v, now) IN
    /\ tokens' = r.toks
    /\ nsucc' = IF r.res = "Success" THEN [nsucc EXCEPT ![v] = @ + 1] ELSE nsucc
    /\ IF r.res = "Success"
       THEN /\ actInFlight' = actInFlight \cup {[value |-> v, uid |-> r.uid]}
            /\ resp' = [op |-> "validate", code |-> 0, value |-> v,
                        res |-> r.res, uid |-> r.uid]
       ELSE /\ resp' = [op |-> "activate", code |-> ActivateResp(r.res).code,
                        body |-> ActivateResp(r.res).body, value |-> v,
                        res |-> r.res]
            /\ UNCHANGED actInFlight
    /\ UNCHANGED cfg
    /\ UNCHANGED <<users, nextId, regInFlight, active, now, held>>

\* Directory.SetActive(userID); UserNotFound when the row is missing.
ActivateSetActive(a) ==
    /\ a \in actInFlight
    /\ actInFlight' = actInFlight \ {a}
    /\ LET res == IF \E u \in users : u.id = a.uid THEN "Success"
                  ELSE "UserNotFound" IN
       /\ active' = IF res = "Success" THEN active \cup {a.uid} ELSE active
       /\ resp' = [op |-> "activate", code |-> ActivateResp(res).code,
                   body |-> ActivateResp(res).body, value |-> a.value,
                   res |-> res]
    /\ UNCHANGED cfg
    /\ UNCHANGED <<users, nextId, regInFlight, tokens, now, held, nsucc>>

\* Directory.SetActive(userID) that fails or times out: Internal.
ActivateSetActiveFail(a) ==
    /\ a \in actInFlight
    /\ actInFlight' = actInFlight \ {a}
    /\ resp' = [op |-> "activate", code |-> ActivateResp("Internal").code,
                body |-> ActivateResp("Internal").body, value |-> a.value,
                res |-> "Internal"]
    /\ UNCHANGED cfg
    /\ UNCHANGED <<users, nextId, regInFlight, active, tokens, now, held, nsucc>>

\* -------------------------------------------------------------- LoadConfig
\* once.Do(func): the first caller runs godotenv.Load, which sets the
\* variables of the .env file that the environment does not have yet, or
\* fails when there is no file; later callers pass.
CfgOnceDo(g, fileExists) ==
    /\ cfg.pc[g] = "once"
    /\ cfg' = IF cfg.onceDone
              THEN [cfg EXCEPT !.pc[g] = "getenv"]
              ELSE [cfg EXCEPT !.pc[g] = "getenv",
                               !.onceDone = TRUE,
                               !.loads = @ + 1,
                               !.env = IF fileExists /\ @ = ""
                                       THEN DotEnvDBHost ELSE @]
    /\ UNCHANGED acctVars

\* dbHost := getEnv("DB_HOST", "localhost") and the other reads.
CfgGetEnv(g) ==
    /\ cfg.pc[g] = "getenv"
    /\ cfg' = [cfg EXCEPT !.pc[g] = "store",
                          !.dbHost[g] = getEnv(cfg.env, "localhost")]
    /\ UNCHANGED acctVars

\* config = &Config{...}: a write of the package variable, without a lock.
CfgStore(g) ==
    /\ cfg.pc[g] = "store"
    /\ cfg' = [cfg EXCEPT !.pc[g] = "return",
                          !.config = [by |-> g, DBHost |-> cfg.dbHost[g]]]
    /\ UNCHANGED acctVars

\* return config: a read of the package variable that races with the writes
\* of the other callers; it yields what the variable holds, or the pointer
\* this call wrote when the compiler kept it in a register.
CfgReturn(g, c) ==
    /\ cfg.pc[g] = "return"
    /\ c \in {cfg.config, [by |-> g, DBHost |-> cfg.dbHost[g]]}
    /\ cfg' = [cfg EXCEPT !.pc[g] = "done", !.ret[g] = c]
    /\ UNCHANGED acctVars

\* -------------------------------------------------------------------- Next
Next ==
    \/ \E d \in TickSteps : Tick(d)
    \/ \E e \in Emails, pw \in RegPasswords, ok \in BOOLEAN : RegisterBind(e, pw, ok)
    \/ \E r \in regInFlight : RegisterInsert(r)
    \/ \E e \in Emails, pw \in Passwords, ok \in BOOLEAN : Login(e, pw, ok)
    \/ \E uid \in UserIds : Issue(uid)
    \/ \E v \in ReqToks : ActivateValidate(v)
    \/ \E a \in actInFlight : ActivateSetActive(a)
    \/ \E a \in actInFlight : ActivateSetActiveFail(a)

Spec == Init /\ [][Next]_vars

\* The account part: Register and Login on the users table, with every
\* password as a registration password, so that two Register calls for one
\* email can be in flight together.
NextReg ==
    \/ \E e \in Emails, pw \in Passwords, ok \in BOOLEAN : RegisterBind(e, pw, ok)
    \/ \E r \in regInFlight : RegisterInsert(r)
    \/ \E e \in Emails, pw \in Passwords, ok \in BOOLEAN : Login(e, pw, ok)

SpecReg == Init /\ [][NextReg]_vars

\* The identity-token part: accounts, Login, the client and the middleware.
NextJwt ==
    \/ \E d \in TickSteps : Tick(d)
    \/ \E e \in Emails, pw \in RegPasswords, ok \in BOOLEAN : RegisterBind(e, pw, ok)
    \/ \E r \in regInFlight : RegisterInsert(r)
    \/ \E e \in Emails, pw \in Passwords, ok \in BOOLEAN : Login(e, pw, ok)
    \/ KeepToken
    \/ \E hdr \in Headers : AuthMiddleware(hdr)

SpecJwt == Init /\ [][NextJwt]_vars

\* Configuration loading: NumCallers goroutines call LoadConfig once each.
NextCfg ==
    \/ \E g \in Callers, fileExists \in BOOLEAN : CfgOnceDo(g, fileExists)
    \/ \E g \in Callers : CfgGetEnv(g)
    \/ \E g \in Callers : CfgStore(g)
    \/ \E g \in Callers :
          \E c \in {cfg.config, [by |-> g, DBHost |-> cfg.dbHost[g]]} :
             CfgReturn(g, c)

SpecCfg == Init /\ [][NextCfg]_vars

TypeOK ==
    /\ nextId \in 1..(MaxId + 1)
    /\ active \subseteq UserIds
    /\ now \in 0..MaxTime
    /\ Len(held) <= 1

\* ================================================================= claims
TokenErrors == {"NotFound", "Expired", "AlreadyConsumed"}

\* The token record behind a value (a set: empty when the value is unknown).
Lookup(v) == {x \in tokens : x.value = v}

\* The user rows that Login finds for an email, and their ids.
PasswordRight(email, password) ==
    \E u \in FindUserByEmail(users, email) : CheckPasswordHash(password, u.password)

\* strings.ToLower on the e-mail addresses of the model.
Lower(email) == CASE email = "A@b.com" -> "a@b.com" [] OTHER -> email

\* State of the token state machine at time t.
TokState(x, t) ==
    IF x.consumed THEN "Consumed"
    ELSE IF t > x.expiry THEN "Expired" ELSE "Issued"

\* C1: every Validate call on an issued token that has not expired returns
\* Success with the owning user id when no earlier call on that token value
\* succeeded, and AlreadyConsumed otherwise, whatever other Activate calls
\* are in flight: so exactly one call on the token succeeds.
C1_ExactlyOneValidateSucceeds ==
    [][\A v \in ReqToks : \A x \in Lookup(v) :
          (ActivateValidate(v) /\ now <= x.expiry) =>
             IF nsucc[v] = 0
             THEN /\ resp'.op = "validate"
                  /\ resp'.res = "Success"
                  /\ resp'.uid = x.uid
                  /\ nsucc'[v] = 1
             ELSE /\ resp'.op = "activate"
                  /\ resp'.res = "AlreadyConsumed"
                  /\ nsucc'[v] = 1]_vars

\* C1 witness: a second call on a token was refused as AlreadyConsumed while
\* the call that consumed it is still in flight.
C1_Witness ==
    /\ resp.op = "activate"
    /\ resp.res = "AlreadyConsumed"
    /\ nsucc[resp.value] = 1
    /\ \E a \in actInFlight : a.value = resp.value

\* C2 (as claimed): a Login with the right password for a user who is still
\* Pending answers 401 and carries no identity token.
C2_PendingLoginRefused ==
    [][\A e \in Emails, pw \in Passwords :
          (Login(e, pw, TRUE) /\ PasswordRight(e, pw)
             /\ \E u \in FindUserByEmail(users, e) : Status(u.id) = "Pending")
          => (resp'.code = 401 /\ resp'.token = <<>>)]_vars

\* C3: a user who is Active stays Active, and a user becomes Active only in
\* the SetActive step of an Activate call whose token validated for that
\* same user; no other step changes any status.
C3_StatusOnlyByActivation ==
    [][\A uid \in UserIds :
          /\ (uid \in active => uid \in active')
          /\ (uid \notin active /\ uid \in active') =>
                \E a \in actInFlight :
                   /\ a.uid = uid
                   /\ ActivateSetActive(a)
                   /\ nsucc[a.value] >= 1
                   /\ \E x \in Lookup(a.value) : x.uid = uid /\ x.consumed]_vars

\* C3 witness: an Activate call has just made a user Active.
C3_Witness ==
    /\ resp.op = "activate"
    /\ resp.code = 200
    /\ \E x \in Lookup(resp.value) : x.uid \in active

\* C4 (as claimed): no two user rows have the same email compared
\* case-insensitively.
C4_EmailUniqueIgnoringCase ==
    \A u1 \in users, u2 \in users :
       u1 # u2 => Lower(u1.email) # Lower(u2.email)

\* C5 (as claimed): a Register call that arrives after a Register for the
\* same email has succeeded answers 409.
C5_DuplicateIs409 ==
    [][\A r \in regInFlight :
          (RegisterInsert(r) /\ r.late) => resp'.code = 409]_vars

\* C6 (as claimed): a Register call for an email whose Pending account has no
\* usable activation token issues a new activation token for that account
\* and does not answer with an error.
C6_RetryReissuesToken ==
    [][\A r \in regInFlight :
          (/\ RegisterInsert(r)
           /\ r.late
           /\ \A u \in FindUserByEmail(users, r.email) :
                 /\ Status(u.id) = "Pending"
                 /\ \A x \in tokens : x.uid = u.id => TokState(x, now) # "Issued")
          => /\ resp'.code \notin {409, 500}
             /\ \E x \in tokens' \ tokens :
                   \E u \in FindUserByEmail(users, r.email) : x.uid = u.id]_vars

\* C7: a Validate call on a token past its expiry returns Expired, consumed
\* before or not, and leaves the tokens as they are; a token that is Expired
\* stays Expired and a token that is Consumed stays Consumed.
C7_ExpiredStaysExpired ==
    [][/\ \A v \in ReqToks : \A x \in Lookup(v) :
             (ActivateValidate(v) /\ now > x.expiry) =>
                /\ resp'.op = "activate"
                /\ resp'.res = "Expired"
                /\ tokens' = tokens
       /\ \A x \in tokens : \E y \in tokens' :
             /\ y.value = x.value
             /\ TokState(x, now) = "Expired" => TokState(y, now') = "Expired"
             /\ TokState(x, now) = "Consumed" => TokState(y, now') = "Consumed"]_vars

\* C7 witness: a token that was consumed and is now past its expiry has just
\* been validated again, with the answer Expired.
C7_Witness ==
    /\ resp.op = "activate"
    /\ resp.res = "Expired"
    /\ \E x \in Lookup(resp.value) : x.consumed /\ now > x.expiry

\* C8: an Activate call whose token value is unknown, expired or already
\* consumed answers 400 with one and the same body, starts no SetActive and
\* leaves every status as it is.
C8_BadTokenIs400 ==
    [][\A v \in ReqToks :
          (ActivateValidate(v) /\ Validate(tokens, v, now).res \in TokenErrors)
          => /\ resp'.op = "activate"
             /\ resp'.code = 400
             /\ resp'.body = "Invalid or expired token"
             /\ active' = active
             /\ actInFlight' = actInFlight]_vars

\* C8 witness: an Activate call with a value that is no token was answered
\* 400 while a token is out for a Pending user.
C8_Witness ==
    /\ resp.op = "activate"
    /\ resp.res = "NotFound"
    /\ resp.code = 400
    /\ Lookup(resp.value) = {}
    /\ \E x \in tokens, u \in users : x.uid = u.id /\ Status(u.id) = "Pending"

\* C9: a Login that fails for an email and password gets the response it
\* would get from the Directory without the row of that email (401, Invalid
\* credentials, no token), and every 401 of Login has that one body.
C9_NoExistenceLeak ==
    /\ \A e \in Emails, pw \in Passwords :
          LET r1 == LoginResp(users, e, pw, now)
              r2 == LoginResp({u \in users : u.email # e}, e, pw, now)
          IN r1.code # 200 =>
                r1 = r2 /\ r1.code = 401 /\ r1.body = "Invalid credentials"
    /\ (resp.op = "login" /\ resp.code \notin {200, 400}) =>
          resp.code = 401 /\ resp.body = "Invalid credentials" /\ resp.token = <<>>

\* C9 witness: a Login with a wrong password for a registered email was
\* answered 401 while another email of the model is not registered.
C9_Witness ==
    /\ resp.op = "login"
    /\ resp.code = 401
    /\ FindUserByEmail(users, resp.email) # {}
    /\ ~PasswordRight(resp.email, resp.password)
    /\ \E e \in Emails : FindUserByEmail(users, e) = {}

\* The user id the token the client holds was issued for: the id of the row
\* whose email the token names.
HeldOwner == {u.id : u \in FindUserByEmail(users, held[1].claims.email)}

\* C10 (as claimed): verifying the token Login issued yields the user id
\* while the clock is not past the expiry (now <= exp), and Expired after.
C10_VerifyUntilExpiryInclusive ==
    [][(held # <<>> /\ AuthMiddleware(held)) =>
          IF now <= held[1].claims.exp
          THEN resp'.code = 200 /\ resp'.user_id \in HeldOwner
          ELSE resp'.code = 401 /\ resp'.err = "Expired"]_vars

\* C10 (amended): verifying the token Login issued yields the user id it was
\* issued for while the clock is before the expiry (now < exp), and Expired
\* from the expiry on; it never yields another user id.
C10_VerifyUntilExpiry ==
    [][(held # <<>> /\ AuthMiddleware(held)) =>
          IF now < held[1].claims.exp
          THEN /\ resp'.code = 200
               /\ resp'.err = "none"
               /\ resp'.user_id \in HeldOwner
          ELSE /\ resp'.code = 401
               /\ resp'.err = "Expired"
               /\ resp'.user_id \notin UserIds]_vars

\* C10 witness: the held token was verified at the very hour of its expiry
\* and refused as Expired.
C10_Witness ==
    /\ held # <<>>
    /\ resp.op = "verify"
    /\ resp.code = 401
    /\ resp.hdr = held
    /\ resp.err = "Expired"
    /\ now = held[1].claims.exp

\* C11 (as claimed): in every state, also between the two steps of an
\* Activate call and after one that ended in UserNotFound or Internal, an
\* activation token is Consumed only if the user it belongs to is Active.
C11_ConsumedOnlyIfActive ==
    \A x \in tokens : x.consumed => Status(x.uid) = "Active"

\* C12 (as claimed): a Register call whose password is shorter than 8
\* characters answers 400 and leaves the users table and the activation
\* tokens as they are.
C12_ShortPasswordRejected ==
    [][\A r \in regInFlight :
          (RegisterInsert(r) /\ Len(r.password.bcrypt) < MinPasswordLen)
          => /\ resp'.code = 400
             /\ users' = users
             /\ tokens' = tokens]_vars

\* C13 (as claimed): the .env file is loaded at most once, and every
\* LoadConfig call that has returned returned the Config it built itself.
C13_LoadConfigIsolated ==
    /\ cfg.loads <= 1
    /\ \A g \in Callers :
          cfg.pc[g] = "done" =>
             cfg.ret[g] = [by |-> g, DBHost |-> cfg.dbHost[g]]
====
